---- MODULE Spec2Model ----
(***************************************************************************)
(* BloodSugarDashboard: the CSV loader (loadCSVData, run by the mount      *)
(* effect), the normalizer (processedData), the partitions (fastingData,   *)
(* randomData), the aggregator (stats) and the render branches.            *)
(***************************************************************************)
EXTENDS Integers, Sequences, FiniteSets, TLC

(***************************************************************************)
(* Bounds of the model.                                                    *)
(***************************************************************************)
\* Largest number of rows of a CSV body whose normalization is explored.
MaxRows == 3

(***************************************************************************)
(* JavaScript values.  k is the type tag; n the value of a number; s the   *)
(* text of a string that is only compared and concatenated; c the          *)
(* characters of a string that is inspected character by character.        *)
(***************************************************************************)
Undef == [k |-> "undefined", n |-> 0, s |-> "", c |-> <<>>]

Null == [k |-> "null", n |-> 0, s |-> "", c |-> <<>>]

NaN == [k |-> "nan", n |-> 0, s |-> "", c |-> <<>>]

Num(x) == [k |-> "number", n |-> x, s |-> "", c |-> <<>>]

Str(x) == [k |-> "string", n |-> 0, s |-> x, c |-> <<>>]

Text(x) == [k |-> "string", n |-> 0, s |-> "", c |-> x]

\* ToBoolean: what `v || d` and `v && e` and `if (v)` test.
Truthy(v) ==
    CASE v.k = "string" -> v.s # "" \/ v.c # <<>>
      [] v.k = "number" -> v.n # 0
      [] OTHER -> FALSE

IsNaN(v) == v.k = "nan"

\* String.prototype.trim over the characters of a string.
RECURSIVE TrimStart(_)
TrimStart(c) ==
    IF c # <<>> /\ Head(c) = " " THEN TrimStart(Tail(c)) ELSE c

RECURSIVE TrimEnd(_)
TrimEnd(c) ==
    IF c # <<>> /\ c[Len(c)] = " " THEN TrimEnd(SubSeq(c, 1, Len(c) - 1)) ELSE c

Trim(c) == TrimEnd(TrimStart(c))

IsDigit(ch) == ch \in {"0", "1", "2", "3", "4", "5", "6", "7", "8", "9"}

DigitVal(ch) ==
    CASE ch = "0" -> 0 [] ch = "1" -> 1 [] ch = "2" -> 2 [] ch = "3" -> 3
      [] ch = "4" -> 4 [] ch = "5" -> 5 [] ch = "6" -> 6 [] ch = "7" -> 7
      [] ch = "8" -> 8 [] ch = "9" -> 9

\* Length of the longest prefix of c made of digits.
RECURSIVE DigitPrefixLen(_)
DigitPrefixLen(c) ==
    IF c # <<>> /\ IsDigit(Head(c)) THEN 1 + DigitPrefixLen(Tail(c)) ELSE 0

RECURSIVE DigitsValue(_, _)
DigitsValue(c, len) ==
    IF len = 0 THEN 0 ELSE DigitsValue(c, len - 1) * 10 + DigitVal(c[len])

\* parseFloat of a string: leading white space is skipped, then an optional
\* sign and the longest numeric prefix are read and whatever follows is
\* ignored; no numeric prefix gives NaN.  (The strings of this model hold no
\* ".", no exponent and no "Infinity", so the numeric prefix is a digit run.)
ParseFloatChars(c) ==
    LET t == TrimStart(c)
        signed == t # <<>> /\ Head(t) \in {"-", "+"}
        u == IF signed THEN Tail(t) ELSE t
        len == DigitPrefixLen(u)
        mag == DigitsValue(u, len)
    IN  IF len = 0 THEN NaN
        ELSE IF signed /\ Head(t) = "-" THEN Num(0 - mag) ELSE Num(mag)

\* parseFloat(v): v is converted to a string first, so a number is read
\* back as itself, and null, undefined and NaN give NaN.
ParseFloat(v) ==
    CASE v.k = "number" -> v
      [] v.k = "string" -> ParseFloatChars(v.c)
      [] OTHER -> NaN

(***************************************************************************)
(* Dates.  A raw date field is a string holding an ISO calendar date       *)
(* (iso = <<y, m, d>>), a string that is no date (iso = <<>>), or missing. *)
(* The time value of a Date is counted in whole days since 1970-01-01:     *)
(* every date string of the model is a date-only string, that is midnight  *)
(* UTC.  The label is taken in UTC.                                        *)
(***************************************************************************)
IsoDate(y, m, d) == [k |-> "string", iso |-> <<y, m, d>>]

NoDateText == [k |-> "string", iso |-> <<>>]

MissingDate == [k |-> "undefined", iso |-> <<>>]

DaysFromCivil(y, m, d) ==
    LET yy == IF m <= 2 THEN y - 1 ELSE y
        era == yy \div 400
        yoe == yy - era * 400
        mp == IF m > 2 THEN m - 3 ELSE m + 9
        doy == (153 * mp + 2) \div 5 + d - 1
        doe == yoe * 365 + yoe \div 4 - yoe \div 100 + doy
    IN  era * 146097 + doe - 719468

CivilFromDays(days) ==
    LET z == days + 719468
        era == z \div 146097
        doe == z - era * 146097
        yoe == (doe - doe \div 1460 + doe \div 36524 - doe \div 146096) \div 365
        doy == doe - (365 * yoe + yoe \div 4 - yoe \div 100)
        mp == (5 * doy + 2) \div 153
        d == doy - (153 * mp + 2) \div 5 + 1
        m == IF mp < 10 THEN mp + 3 ELSE mp - 9
        y == yoe + era * 400 + (IF m <= 2 THEN 1 ELSE 0)
    IN  [y |-> y, m |-> m, d |-> d]

\* new Date(row.date): an Invalid Date (time value NaN) unless the field is
\* a date string.
NewDate(raw) ==
    IF raw.k = "string" /\ raw.iso # <<>>
    THEN [valid |-> TRUE, t |-> DaysFromCivil(raw.iso[1], raw.iso[2], raw.iso[3])]
    ELSE [valid |-> FALSE, t |-> 0]

MonthShort ==
    <<"Jan", "Feb", "Mar", "Apr", "May", "Jun",
      "Jul", "Aug", "Sep", "Oct", "Nov", "Dec">>

\* date.toLocaleDateString('en-US', { month: 'short', day: 'numeric' })
ToLocaleDateString(date) ==
    IF date.valid
    THEN LET civ == CivilFromDays(date.t)
         IN  MonthShort[civ.m] \o " " \o ToString(civ.d)
    ELSE "Invalid Date"

(***************************************************************************)
(* The normalizer: processedData.  A raw record is one cleaned row of the  *)
(* parse result, [date, sugarLevel, type, time]; the notes column is       *)
(* copied through unread and is left out.                                  *)
(***************************************************************************)
\* sugarLevel: parseFloat(row.sugarLevel) || 0
SugarLevelOf(row) ==
    LET level == ParseFloat(row.sugarLevel)
    IN  IF Truthy(level) THEN level ELSE Num(0)

\* A variant of the type default that folds every value outside the two
\* categories into UNKNOWN.
TypeOfFolded(row) ==
    IF row.type \in {Str("FASTING"), Str("RANDOM")} THEN row.type ELSE Str("UNKNOWN")

\* type: row.type || 'UNKNOWN'
TypeOf(row) == IF Truthy(row.type) THEN row.type ELSE Str("UNKNOWN")

\* time: row.time || ''
TimeOf(row) == IF Truthy(row.time) THEN row.time ELSE Str("")

\* The callback of bloodSugarData.map; index counts from 0.
MapRow(row, index) ==
    LET date == NewDate(row.date)
    IN  [id |-> index,
         date |-> date,
         dateStr |-> ToLocaleDateString(date),
         sugarLevel |-> SugarLevelOf(row),
         type |-> TypeOf(row),
         time |-> TimeOf(row)]

MapRows(data) == [i \in 1..Len(data) |-> MapRow(data[i], i - 1)]

\* A variant of the filter predicate that also keeps a level of zero.
ValidItemOrZero(item) == ~IsNaN(item.sugarLevel) /\ item.sugarLevel.n >= 0

\* The predicate of .filter.
ValidItem(item) == ~IsNaN(item.sugarLevel) /\ item.sugarLevel.n > 0

FilterItems(items) == SelectSeq(items, ValidItem)

\* The comparator (a, b) => a.date - b.date: NaN when either date is invalid.
CompareFn(a, b) ==
    IF a.date.valid /\ b.date.valid THEN Num(a.date.t - b.date.t) ELSE NaN

\* Array.prototype.sort reads a comparator result through ToNumber and
\* takes NaN as +0.
SortCompare(a, b) ==
    LET v == CompareFn(a, b) IN IF IsNaN(v) THEN 0 ELSE v.n

InsertAt(s, x, j) == SubSeq(s, 1, j) \o <<x>> \o SubSeq(s, j + 1, Len(s))

\* Straight insertion: x moves left past every element that compares greater.
RECURSIVE LinearPos(_, _, _)
LinearPos(s, x, j) ==
    IF j >= 1 /\ SortCompare(s[j], x) > 0 THEN LinearPos(s, x, j - 1) ELSE j

RECURSIVE LinearInsertionSort(_)
LinearInsertionSort(s) ==
    IF Len(s) <= 1 THEN s
    ELSE LET front == LinearInsertionSort(SubSeq(s, 1, Len(s) - 1))
             x == s[Len(s)]
         IN  InsertAt(front, x, LinearPos(front, x, Len(front)))

\* Binary insertion: the slot of x is found by bisection (left and right
\* count from 0).
RECURSIVE BinaryPos(_, _, _, _)
BinaryPos(s, x, left, right) ==
    IF left < right
    THEN LET mid == left + (right - left) \div 2
         IN  IF SortCompare(x, s[mid + 1]) < 0
             THEN BinaryPos(s, x, left, mid)
             ELSE BinaryPos(s, x, mid + 1, right)
    ELSE left

RECURSIVE BinaryInsertionSort(_)
BinaryInsertionSort(s) ==
    IF Len(s) <= 1 THEN s
    ELSE LET front == BinaryInsertionSort(SubSeq(s, 1, Len(s) - 1))
             x == s[Len(s)]
         IN  InsertAt(front, x, BinaryPos(front, x, 0, Len(front)))

\* The orders .sort may leave.  With a consistent comparator the sort is
\* stable and both strategies give the one sorted order; with an
\* inconsistent one (an invalid date compares as equal to everything) the
\* order is the engine's, and short arrays are sorted by insertion.
SortOutcomes(items) == {LinearInsertionSort(items), BinaryInsertionSort(items)}

\* dateCounts[baseDate] when the i-th item is reached.
DateCount(processed, i) ==
    Cardinality({j \in 1..i : processed[j].dateStr = processed[i].dateStr})

\* The label of the i-th item of the sorted sequence.
DisplayDate(processed, i) ==
    LET item == processed[i]
        baseDate == item.dateStr
        count == DateCount(processed, i)
        timeStr == IF Truthy(item.time)
                   THEN " (" \o item.time.s \o ")"
                   ELSE " #" \o ToString(count)
    IN  IF count > 1 THEN baseDate \o timeStr ELSE baseDate

\* The second pass, which adds displayDate to every item.
AddDisplayDates(processed) ==
    [i \in 1..Len(processed) |->
        [id |-> processed[i].id,
         date |-> processed[i].date,
         dateStr |-> processed[i].dateStr,
         sugarLevel |-> processed[i].sugarLevel,
         type |-> processed[i].type,
         time |-> processed[i].time,
         displayDate |-> DisplayDate(processed, i)]]

\* The values the processedData memo may take for a raw collection.
ProcessedOutcomes(data) ==
    IF Len(data) = 0 THEN {<<>>}
    ELSE {AddDisplayDates(p) : p \in SortOutcomes(FilterItems(MapRows(data)))}

(***************************************************************************)
(* The partitions and the aggregator: fastingData, randomData, stats.      *)
(***************************************************************************)
IsFasting(d) == d.type = Str("FASTING")

\* A variant of the random test that takes every non-fasting reading.
IsNotFasting(d) == d.type # Str("FASTING")

\* d.type === 'RANDOM'
IsRandom(d) == d.type = Str("RANDOM")

FastingData(processed) == SelectSeq(processed, IsFasting)

RandomData(processed) == SelectSeq(processed, IsRandom)

Levels(items) == [i \in 1..Len(items) |-> items[i].sugarLevel.n]

RECURSIVE SumOf(_)
SumOf(arr) == IF Len(arr) = 0 THEN 0 ELSE Head(arr) + SumOf(Tail(arr))

\* avg: the quotient sum / length, kept as a fraction.
AvgOf(arr) == [num |-> SumOf(arr), den |-> Len(arr)]

MaxOf(arr) == CHOOSE x \in {arr[i] : i \in 1..Len(arr)} :
    \A i \in 1..Len(arr) : arr[i] <= x

MinOf(arr) == CHOOSE x \in {arr[i] : i \in 1..Len(arr)} :
    \A i \in 1..Len(arr) : x <= arr[i]

\* Number.prototype.toFixed(1) of a non-negative quotient: the nearest
\* multiple of 0.1, the larger one on a tie, written with one decimal.
Decimal1(tenths) == Str(ToString(tenths \div 10) \o "." \o ToString(tenths % 10))

\* A variant that cuts the further decimals off instead of rounding.
ToFixed1Truncated(q) == Decimal1((10 * q.num) \div q.den)

ToFixed1(q) == Decimal1((20 * q.num + q.den) \div (2 * q.den))

NotAvailable == Str("N/A")

EmptyGroup ==
    [avg |-> NotAvailable, max |-> NotAvailable, min |-> NotAvailable, count |-> 0]

\* A group guarded by `levels.length ? ... : 'N/A'`.
GuardedGroup(levels) ==
    [avg |-> IF Len(levels) # 0 THEN ToFixed1(AvgOf(levels)) ELSE NotAvailable,
     max |-> IF Len(levels) # 0 THEN Num(MaxOf(levels)) ELSE NotAvailable,
     min |-> IF Len(levels) # 0 THEN Num(MinOf(levels)) ELSE NotAvailable,
     count |-> Len(levels)]

Stats(processed) ==
    IF Len(processed) = 0
    THEN [overall |-> EmptyGroup, fasting |-> EmptyGroup, random |-> EmptyGroup]
    ELSE LET allLevels == Levels(processed)
             fastingLevels == Levels(FastingData(processed))
             randomLevels == Levels(RandomData(processed))
         IN  [overall |-> [avg |-> ToFixed1(AvgOf(allLevels)),
                           max |-> Num(MaxOf(allLevels)),
                           min |-> Num(MinOf(allLevels)),
                           count |-> Len(allLevels)],
              fasting |-> GuardedGroup(fastingLevels),
              random |-> GuardedGroup(randomLevels)]

(***************************************************************************)
(* Inputs of the model.                                                    *)
(***************************************************************************)
\* Values of import.meta.env.VITE_GOOGLE_SHEET_ID: unset, empty, blank, set.
SheetIds == {Undef, Text(<<>>), Text(<<" ">>), Text(<<"i", "d">>)}

\* Status lines of a response whose ok is false.
FailureStatuses ==
    {[status |-> 404, statusText |-> "Not Found"],
     [status |-> 500, statusText |-> "Internal Server Error"]}

\* The message of the TypeError a rejected fetch carries, and of the error a
\* rejected response.text() carries.
FetchRejectedMessage == "Failed to fetch"

TextRejectedMessage == "The network connection was lost."

\* The message of the error Papa hands to the error callback.
ParserMessage == "Unable to parse"

Row(date, sugarLevel, type, time) ==
    [date |-> date, sugarLevel |-> sugarLevel, type |-> type, time |-> time]

Day1 == IsoDate(2024, 1, 1)

Day2 == IsoDate(2024, 1, 2)

\* Rows that vary the date and the time of a valid FASTING reading.
DateTimeRows ==
    {Row(d, Num(95), Str("FASTING"), t) :
        d \in {Day1, Day2, NoDateText, MissingDate},
        t \in {Undef, Str("14:00")}}

\* Rows that vary the sugarLevel field: numbers (positive, zero, negative),
\* the strings "95x" and "x", and an empty field (null).
LevelRows ==
    {Row(Day1, v, ty, Undef) :
        v \in {Num(95), Num(150), Num(0), Num(0 - 5),
               Text(<<"9", "5", "x">>), Text(<<"x">>), Null},
        ty \in {Str("FASTING"), Str("RANDOM")}}

\* Rows that vary the type field: a case variant, a missing type, an empty
\* field (null) and the number 0.
TypeRows ==
    {Row(Day1, Num(95), ty, Undef) : ty \in {Str("fasting"), Undef, Null, Num(0)}}

RawRows == DateTimeRows \cup LevelRows \cup TypeRows

\* Every raw-record collection of at most MaxRows rows.
RawCollections ==
    UNION {[1..len -> RawRows] : len \in 0..MaxRows}

\* The parse results the loader is run with: no row, one row that is not a
\* valid reading, one valid reading.
LoaderCollections ==
    {<<>>,
     <<Row(Day1, Num(0), Str("FASTING"), Undef)>>,
     <<Row(Day1, Num(95), Str("FASTING"), Undef)>>}

Loads == {1, 2}

(***************************************************************************)
(* State.                                                                  *)
(***************************************************************************)
VARIABLES
    sheetId,          \* import.meta.env.VITE_GOOGLE_SHEET_ID
    strictDev,        \* React is the development build: StrictMode re-runs effects
    pc,               \* where each call of loadCSVData stands
    fetches,          \* the calls of fetch so far: [load, url, result]
    outcome,          \* what each call of loadCSVData ended with
    bloodSugarData,   \* useState([])
    loading,          \* useState(true)
    error,            \* useState(null)
    processedData     \* the processedData memo of the current render

vars ==
    <<sheetId, strictDev, pc, fetches, outcome,
      bloodSugarData, loading, error, processedData>>

(***************************************************************************)
(* loadCSVData.                                                            *)
(***************************************************************************)
GoogleSheetUrl ==
    [base |-> "https://docs.google.com/spreadsheets/d/",
     id |-> sheetId,
     tail |-> "/export?format=csv&gid=0"]

LocalCsvUrl ==
    [base |-> "/data/bloodsugar-data.csv", id |-> Text(<<>>), tail |-> ""]

\* GOOGLE_SHEET_ID && GOOGLE_SHEET_ID.trim() !== ''
SheetConfigured == Truthy(sheetId) /\ Trim(sheetId.c) # <<>>

\* A variant of the choice of URL that tests the identifier without trimming.
CsvUrlUntrimmed == IF Truthy(sheetId) THEN GoogleSheetUrl ELSE LocalCsvUrl

\* let csvUrl = ... ? GOOGLE_SHEET_URL : LOCAL_CSV_URL
CsvUrl == IF SheetConfigured THEN GoogleSheetUrl ELSE LocalCsvUrl

\* fetch(url) is called by load l.
IssueFetch(log, l, url) ==
    Append(log, [load |-> l, url |-> url, result |-> "pending"])

\* The pending fetch of load l settles with result r.
SettleFetch(log, l, r) ==
    [i \in 1..Len(log) |->
        IF log[i].load = l /\ log[i].result = "pending"
        THEN [log[i] EXCEPT !.result = r]
        ELSE log[i]]

BothFailedMessage ==
    "Failed to load CSV file from both Google Sheets and local source. Check console for details."

LocalFailedMessage(st) ==
    "Failed to load local CSV file: " \o ToString(st.status) \o " " \o st.statusText

\* The catch block of load l, entered with err.message = msg.
Catch(l, msg) ==
    /\ error' = Str("Error loading CSV file: " \o msg)
    /\ loading' = FALSE
    /\ pc' = [pc EXCEPT ![l] = "done"]
    /\ outcome' = [outcome EXCEPT ![l] = "error"]
    /\ UNCHANGED <<sheetId, strictDev, bloodSugarData, processedData>>

\* The effect runs once the component has mounted: loadCSVData() runs up to
\* its first await.  Under StrictMode the development build of React runs
\* the effect, then its (absent) cleanup, then the effect again, in the same
\* commit: a second call of loadCSVData starts before any fetch settles.
Mount ==
    /\ \A l \in Loads : pc[l] = "idle"
    /\ loading' = TRUE
    /\ IF strictDev
       THEN /\ pc' = [l \in Loads |-> "fetch"]
            /\ fetches' = IssueFetch(IssueFetch(fetches, 1, CsvUrl), 2, CsvUrl)
       ELSE /\ pc' = [pc EXCEPT ![1] = "fetch"]
            /\ fetches' = IssueFetch(fetches, 1, CsvUrl)
    /\ UNCHANGED <<sheetId, strictDev, outcome, bloodSugarData, error, processedData>>

\* await fetch(csvUrl) resolves with response.ok.
FetchOk(l) ==
    /\ pc[l] = "fetch"
    /\ pc' = [pc EXCEPT ![l] = "text"]
    /\ fetches' = SettleFetch(fetches, l, "ok")
    /\ UNCHANGED <<sheetId, strictDev, outcome, bloodSugarData, loading, error,
                   processedData>>

\* await fetch(csvUrl) resolves with !response.ok.
FetchNotOk(l) ==
    /\ pc[l] = "fetch"
    /\ \E st \in FailureStatuses :
        IF CsvUrl = GoogleSheetUrl
        THEN /\ pc' = [pc EXCEPT ![l] = "fallback"]
             /\ fetches' = IssueFetch(SettleFetch(fetches, l, "notok"), l, LocalCsvUrl)
             /\ UNCHANGED <<sheetId, strictDev, outcome, bloodSugarData, loading,
                            error, processedData>>
        ELSE /\ fetches' = SettleFetch(fetches, l, "notok")
             /\ Catch(l, LocalFailedMessage(st))

\* await fetch(csvUrl) rejects.
FetchRejected(l) ==
    /\ pc[l] = "fetch"
    /\ fetches' = SettleFetch(fetches, l, "rejected")
    /\ Catch(l, FetchRejectedMessage)

\* await fetch(LOCAL_CSV_URL) resolves with fallbackResponse.ok.
FallbackOk(l) ==
    /\ pc[l] = "fallback"
    /\ pc' = [pc EXCEPT ![l] = "fallbackText"]
    /\ fetches' = SettleFetch(fetches, l, "ok")
    /\ UNCHANGED <<sheetId, strictDev, outcome, bloodSugarData, loading, error,
                   processedData>>

\* await fetch(LOCAL_CSV_URL) resolves with !fallbackResponse.ok.
FallbackNotOk(l) ==
    /\ pc[l] = "fallback"
    /\ fetches' = SettleFetch(fetches, l, "notok")
    /\ Catch(l, BothFailedMessage)

\* await fetch(LOCAL_CSV_URL) rejects.
FallbackRejected(l) ==
    /\ pc[l] = "fallback"
    /\ fetches' = SettleFetch(fetches, l, "rejected")
    /\ Catch(l, FetchRejectedMessage)

\* Load l has an OK response and awaits its body text.
AwaitingText(l) == pc[l] \in {"text", "fallbackText"}

\* The source label parseCSV is called with.
SourceLabel(l) ==
    IF pc[l] = "text" /\ CsvUrl = GoogleSheetUrl THEN "Google Sheets" ELSE "local file"

\* The body text arrives and parseCSV runs to the complete callback with
\* cleaned rows `data`: setBloodSugarData, setLoading(false), and the render
\* that follows recomputes the processedData memo.
ParseComplete(l, data) ==
    /\ AwaitingText(l)
    /\ bloodSugarData' = data
    /\ loading' = FALSE
    /\ processedData' \in ProcessedOutcomes(data)
    /\ pc' = [pc EXCEPT ![l] = "done"]
    /\ outcome' = [outcome EXCEPT ![l] = "data"]
    /\ UNCHANGED <<sheetId, strictDev, fetches, error>>

\* The body text arrives and parseCSV runs to the error callback.
ParseFailed(l) ==
    /\ AwaitingText(l)
    /\ error' = Str("Error parsing CSV from " \o SourceLabel(l) \o ": " \o ParserMessage)
    /\ loading' = FALSE
    /\ pc' = [pc EXCEPT ![l] = "done"]
    /\ outcome' = [outcome EXCEPT ![l] = "error"]
    /\ UNCHANGED <<sheetId, strictDev, fetches, bloodSugarData, processedData>>

\* await response.text() (or fallbackResponse.text()) rejects.
TextRejected(l) ==
    /\ AwaitingText(l)
    /\ UNCHANGED fetches
    /\ Catch(l, TextRejectedMessage)

(***************************************************************************)
(* The render branches.                                                    *)
(***************************************************************************)
View ==
    IF loading THEN "loading"
    ELSE IF Truthy(error) THEN "error"
    ELSE IF Len(processedData) = 0 THEN "no data"
    ELSE "dashboard"

fastingData == FastingData(processedData)

randomData == RandomData(processedData)

stats == Stats(processedData)

(***************************************************************************)
(* The component from construction on.                                     *)
(***************************************************************************)
Init ==
    /\ sheetId \in SheetIds
    /\ strictDev \in BOOLEAN
    /\ pc = [l \in Loads |-> "idle"]
    /\ fetches = <<>>
    /\ outcome = [l \in Loads |-> "none"]
    /\ bloodSugarData = <<>>
    /\ loading = TRUE
    /\ error = Null
    /\ processedData = <<>>

Next ==
    \/ Mount
    \/ \E l \in Loads : FetchOk(l)
    \/ \E l \in Loads : FetchNotOk(l)
    \/ \E l \in Loads : FetchRejected(l)
    \/ \E l \in Loads : FallbackOk(l)
    \/ \E l \in Loads : FallbackNotOk(l)
    \/ \E l \in Loads : FallbackRejected(l)
    \/ \E l \in Loads :
        AwaitingText(l) /\ \E data \in LoaderCollections : ParseComplete(l, data)
    \/ \E l \in Loads : ParseFailed(l)
    \/ \E l \in Loads : TextRejected(l)

Spec == Init /\ [][Next]_vars

(***************************************************************************)
(* The normalizer and the aggregator over every raw-record collection:     *)
(* the component with no sheet configured, in the production build, once   *)
(* the local file has been fetched; the parse result is any collection.    *)
(***************************************************************************)
InitData ==
    /\ sheetId = Undef
    /\ strictDev = FALSE
    /\ pc = [l \in Loads |-> IF l = 1 THEN "text" ELSE "idle"]
    /\ fetches = <<[load |-> 1, url |-> LocalCsvUrl, result |-> "ok"]>>
    /\ outcome = [l \in Loads |-> "none"]
    /\ bloodSugarData = <<>>
    /\ loading = TRUE
    /\ error = Null
    /\ processedData = <<>>

NextData == AwaitingText(1) /\ \E data \in RawCollections : ParseComplete(1, data)

SpecData == InitData /\ [][NextData]_vars
(***************************************************************************)
(* Properties of the normalizer and the aggregator (under SpecData).       *)
(***************************************************************************)
\* The indices of the normalized readings, and the raw record a reading
\* was made from.
Readings == 1..Len(processedData)

RawOf(item) == bloodSugarData[item.id + 1]

Normalized == outcome[1] = "data"

\* A string that is a number from end to end: an optional sign and digits.
IsNumericLiteral(c) ==
    LET t == Trim(c)
        u == IF t # <<>> /\ Head(t) \in {"-", "+"} THEN Tail(t) ELSE t
    IN  u # <<>> /\ \A i \in 1..Len(u) : IsDigit(u[i])

\* A sugarLevel field that is not numeric: neither a number nor a numeric string.
NonNumeric(v) == ~(v.k = "number" \/ (v.k = "string" /\ IsNumericLiteral(v.c)))

\* A sugarLevel field with no leading number, or with one that is <= 0.
NoPositivePrefix(v) == IsNaN(ParseFloat(v)) \/ ParseFloat(v).n <= 0

Excluded(i) == \A j \in Readings : processedData[j].id # i - 1

\* C3 as stated: every record whose sugarLevel is non-numeric or <= 0 is
\* excluded by the normalizer, and every normalized reading has a
\* sugarLevel that is a number > 0.
C3_NonNumericExcluded ==
    /\ \A i \in 1..Len(bloodSugarData) :
        (NonNumeric(bloodSugarData[i].sugarLevel)
            \/ NoPositivePrefix(bloodSugarData[i].sugarLevel)) => Excluded(i)
    /\ \A j \in Readings :
        processedData[j].sugarLevel.k = "number" /\ processedData[j].sugarLevel.n > 0

\* C3 amended: every record whose sugarLevel has no leading number
\* (parseFloat gives NaN) or a leading number <= 0 is excluded, every other
\* record is kept with that leading number as its sugarLevel (so "95x" is
\* kept as 95), and every normalized reading has a sugarLevel > 0, not NaN.
C3_NoPositivePrefixExcluded ==
    /\ \A i \in 1..Len(bloodSugarData) :
        IF NoPositivePrefix(bloodSugarData[i].sugarLevel)
        THEN Excluded(i)
        ELSE \E j \in Readings :
                /\ processedData[j].id = i - 1
                /\ processedData[j].sugarLevel = ParseFloat(bloodSugarData[i].sugarLevel)
    /\ \A j \in Readings :
        processedData[j].sugarLevel.k = "number" /\ processedData[j].sugarLevel.n > 0

\* C3 witness: a collection with a zero, a string without a number and a
\* valid reading has been normalized to the one valid reading.
C3_Witness ==
    /\ Normalized
    /\ Len(processedData) = 1
    /\ \E i \in 1..Len(bloodSugarData) : bloodSugarData[i].sugarLevel = Num(0)
    /\ \E i \in 1..Len(bloodSugarData) : bloodSugarData[i].sugarLevel = Text(<<"x">>)

\* C4 as stated: for any raw records, also with missing or unparseable
\* dates, the normalized readings are in non-decreasing order of their
\* dates, and readings of equal date keep their row order.
C4_SortedByDate ==
    \A i \in Readings : \A j \in Readings :
        (i < j /\ processedData[i].date.valid /\ processedData[j].date.valid) =>
            /\ processedData[i].date.t <= processedData[j].date.t
            /\ processedData[i].date.t = processedData[j].date.t =>
                    processedData[i].id < processedData[j].id

\* C5 as stated: two distinct normalized readings with the same dateStr
\* (the label of a calendar day) have different displayDate.
C5_UniqueDisplayDate ==
    \A i \in Readings : \A j \in Readings :
        (/\ i # j
         /\ processedData[i].date.valid
         /\ processedData[i].dateStr = processedData[j].dateStr) =>
            processedData[i].displayDate # processedData[j].displayDate

\* The members of a statistic group, as indices of processedData.
GroupMembers(g) ==
    CASE g = "overall" -> Readings
      [] g = "fasting" -> {i \in Readings : processedData[i].type = Str("FASTING")}
      [] g = "random" -> {i \in Readings : processedData[i].type = Str("RANDOM")}

RECURSIVE LevelSum(_)
LevelSum(members) ==
    IF members = {} THEN 0
    ELSE LET i == CHOOSE m \in members : TRUE
         IN  processedData[i].sugarLevel.n + LevelSum(members \ {i})

Abs(x) == IF x < 0 THEN 0 - x ELSE x

\* avg is the decimal, with one decimal place, nearest to sum / count.
IsRoundedMean(avg, sum, count) ==
    \E tenths \in ((10 * sum) \div count)..((10 * sum) \div count + 1) :
        /\ avg = Str(ToString(tenths \div 10) \o "." \o ToString(tenths % 10))
        /\ 2 * Abs(10 * sum - tenths * count) <= count

GroupCorrect(g, group) ==
    LET members == GroupMembers(g)
        levels == {processedData[i].sugarLevel.n : i \in members}
    IN  /\ group.count = Cardinality(members)
        /\ IF members = {}
           THEN /\ group.avg = Str("N/A")
                /\ group.max = Str("N/A")
                /\ group.min = Str("N/A")
           ELSE /\ IsRoundedMean(group.avg, LevelSum(members), Cardinality(members))
                /\ group.max.k = "number" /\ group.max.n \in levels
                /\ \A x \in levels : x <= group.max.n
                /\ group.min.k = "number" /\ group.min.n \in levels
                /\ \A x \in levels : group.min.n <= x

\* C6: in each of the three groups count is the number of members; a
\* non-empty group has the mean of its members' sugarLevel rounded to one
\* decimal as avg and its largest and smallest member as max and min; an
\* empty group has 'N/A' for avg, max and min and count 0.
C6_StatsPerGroup ==
    /\ GroupCorrect("overall", stats.overall)
    /\ GroupCorrect("fasting", stats.fasting)
    /\ GroupCorrect("random", stats.random)

\* C6 witness: three fasting readings 95, 150, 150: the mean 131.66... is
\* rounded up to 131.7 and the random group is empty.
C6_Witness ==
    /\ Normalized
    /\ stats.overall.count = 3
    /\ stats.overall.avg = Str("131.7")
    /\ stats.fasting.avg = Str("131.7")
    /\ stats.random = [avg |-> Str("N/A"), max |-> Str("N/A"), min |-> Str("N/A"),
                       count |-> 0]

InSeq(item, seq) == \E k \in 1..Len(seq) : seq[k] = item

\* C7: a FASTING reading is in fastingData and not in randomData, a RANDOM
\* reading is in randomData and not in fastingData, a reading of any other
\* type is in neither, and every reading is counted in stats.overall, so
\* overall.count >= fasting.count + random.count.
C7_Partition ==
    /\ \A i \in Readings :
        LET item == processedData[i]
        IN  /\ InSeq(item, fastingData) <=> item.type = Str("FASTING")
            /\ InSeq(item, randomData) <=> item.type = Str("RANDOM")
    /\ \A k \in 1..Len(fastingData) : InSeq(fastingData[k], processedData)
    /\ \A k \in 1..Len(randomData) : InSeq(randomData[k], processedData)
    /\ stats.overall.count = Len(processedData)
    /\ stats.overall.count >= stats.fasting.count + stats.random.count

\* C7 witness: a FASTING, a RANDOM and an UNKNOWN reading: one in each
\* partition and three in the overall statistics.
C7_Witness ==
    /\ Normalized
    /\ Len(processedData) = 3
    /\ Len(fastingData) = 1
    /\ Len(randomData) = 1
    /\ \E i \in Readings : processedData[i].type = Str("UNKNOWN")
    /\ stats.overall.count = 3

\* C8 as stated: the type of every normalized reading is FASTING, RANDOM
\* or UNKNOWN.
C8_TypeIsEnum ==
    \A i \in Readings :
        processedData[i].type \in {Str("FASTING"), Str("RANDOM"), Str("UNKNOWN")}

\* A type field that is absent, empty (null, '') or another falsy value (0).
AbsentType(raw) ==
    \/ raw.k \in {"undefined", "null"}
    \/ raw.k = "string" /\ raw.s = ""
    \/ raw.k = "number" /\ raw.n = 0

\* C8 amended: the type of a normalized reading is UNKNOWN when the raw
\* type is absent, empty or otherwise falsy, and the raw type unchanged
\* otherwise (so 'fasting' stays 'fasting'); a reading whose type is not
\* exactly FASTING or RANDOM is in neither partition.
C8_TypeKeptUnlessAbsent ==
    \A i \in Readings :
        LET item == processedData[i]
            raw == RawOf(item).type
        IN  /\ item.type = IF AbsentType(raw) THEN Str("UNKNOWN") ELSE raw
            /\ item.type \notin {Str("FASTING"), Str("RANDOM")} =>
                    ~InSeq(item, fastingData) /\ ~InSeq(item, randomData)

\* C8 witness: a record of type 'fasting' and a record without a type have
\* been normalized, to 'fasting' and to UNKNOWN.
C8_Witness ==
    /\ Normalized
    /\ \E i \in Readings :
        RawOf(processedData[i]).type = Undef /\ processedData[i].type = Str("UNKNOWN")
    /\ \E i \in Readings :
        RawOf(processedData[i]).type = Str("fasting")
            /\ processedData[i].type = Str("fasting")

(***************************************************************************)
(* Properties of the loader (under Spec).                                  *)
(***************************************************************************)
FetchesOf(l) == {i \in 1..Len(fetches) : fetches[i].load = l}

RemoteFailed(l) ==
    \E i \in FetchesOf(l) :
        fetches[i].url = GoogleSheetUrl /\ fetches[i].result \in {"notok", "rejected"}

RemoteRejected(l) ==
    \E i \in FetchesOf(l) :
        fetches[i].url = GoogleSheetUrl /\ fetches[i].result = "rejected"

LocalFetched(l) == \E i \in FetchesOf(l) : fetches[i].url = LocalCsvUrl

\* C1 as stated: when a sheet is configured and the remote fetch fails
\* (rejected, or resolved with a non-OK response), no load reaches setError
\* without having fetched the local fallback URL after the failure.
C1_FallbackBeforeError ==
    \A l \in Loads :
        (SheetConfigured /\ RemoteFailed(l) /\ outcome[l] = "error") => LocalFetched(l)

\* C2 as stated: when the remote fetch is rejected and nothing the load
\* fetches succeeds, the load ends in the terminal error state (loading
\* false, error set, no raw data) with a message that names both sources.
\* Stated for the production build, where one load runs.
C2_BothSourcesNamed ==
    (/\ ~strictDev
     /\ outcome[1] # "none"
     /\ RemoteRejected(1)
     /\ \A i \in FetchesOf(1) : fetches[i].result = "rejected") =>
        /\ loading = FALSE
        /\ bloodSugarData = <<>>
        /\ error = Str("Error loading CSV file: " \o BothFailedMessage)

InFlight == {l \in Loads : pc[l] \notin {"idle", "done"}}

Started == {l \in Loads : pc[l] # "idle"}

\* C9 as stated: loadCSVData is started once over the mount of the
\* component and at most one load is in flight.
C9_SingleLoad == Cardinality(Started) <= 1 /\ Cardinality(InFlight) <= 1

AllNotAvailable ==
    [overall |-> [avg |-> Str("N/A"), max |-> Str("N/A"), min |-> Str("N/A"), count |-> 0],
     fasting |-> [avg |-> Str("N/A"), max |-> Str("N/A"), min |-> Str("N/A"), count |-> 0],
     random |-> [avg |-> Str("N/A"), max |-> Str("N/A"), min |-> Str("N/A"), count |-> 0]]

\* C10 as stated: whenever a load succeeds and normalization yields no
\* valid reading, then loading is false, error is still null, the render
\* shows 'No Data Found' and every statistic group is 'N/A' with count 0.
C10_NoDataState ==
    [][\A l \in Loads : \A data \in LoaderCollections :
        (ParseComplete(l, data) /\ Len(processedData') = 0) =>
            /\ loading' = FALSE
            /\ error' = Null
            /\ View' = "no data"
            /\ stats' = AllNotAvailable]_vars

\* The fetches of load l, in the order they were issued.
FetchSeqOf(l) == SelectSeq(fetches, LAMBDA f : f.load = l)

\* The sheet identifier is present and not blank.
IdentifierGiven ==
    sheetId.k = "string" /\ \E i \in 1..Len(sheetId.c) : sheetId.c[i] # " "

\* C11: within one load the remote URL is fetched only if the sheet
\* identifier is present and non-empty after trimming, and at most once;
\* the local URL is fetched at most once; with no identifier the only fetch
\* is the local one and its failure ends the load in the error state with
\* no further fetch; a load issues at most two fetches, one after the other
\* (a fetch is issued only when the one before has settled).
C11_FetchesPerLoad ==
    \A l \in Loads :
        LET fs == FetchSeqOf(l)
            remote == {i \in 1..Len(fs) : fs[i].url = GoogleSheetUrl}
            local == {i \in 1..Len(fs) : fs[i].url = LocalCsvUrl}
        IN  /\ remote # {} => IdentifierGiven
            /\ Cardinality(remote) <= 1
            /\ Cardinality(local) <= 1
            /\ Len(fs) <= 2
            /\ \A i \in 1..Len(fs) : i < Len(fs) => fs[i].result # "pending"
            /\ Len(fs) = 2 => fs[1].url = GoogleSheetUrl /\ fs[1].result = "notok"
            /\ ~IdentifierGiven =>
                /\ remote = {}
                /\ pc[l] # "idle" => Len(fs) = 1 /\ fs[1].url = LocalCsvUrl
                /\ (Len(fs) = 1 /\ fs[1].result \in {"notok", "rejected"}) =>
                        pc[l] = "done" /\ outcome[l] = "error" /\ Truthy(error)

\* C11 witness: a load has fetched the remote URL, got a non-OK response,
\* fetched the local URL, and ended in the error state when that failed too.
C11_Witness ==
    \E l \in Loads :
        /\ Len(FetchSeqOf(l)) = 2
        /\ FetchSeqOf(l)[1].url = GoogleSheetUrl
        /\ FetchSeqOf(l)[2].url = LocalCsvUrl
        /\ FetchSeqOf(l)[2].result = "notok"
        /\ outcome[l] = "error"
====
